---- MODULE Spec2Model ----
(***************************************************************************)
(* Model of the employee data table: column inference (config/columns.js)  *)
(* and the table view controller with CSV export (DataTablePage.jsx).      *)
(*                                                                         *)
(* Text is a sequence of one-character strings.  A JavaScript value is a   *)
(* record with a type tag t and one payload field per primitive type, so   *)
(* that values of different types stay comparable.  A record (table row)   *)
(* is a sequence of [k, v] cells in the object's own key order.            *)
(***************************************************************************)
EXTENDS Integers, Sequences, FiniteSets

VARIABLES data, filterText, visibleColumns,
          liveUrls, download, lastOp, crashed, strictDates

vars == <<data, filterText, visibleColumns,
          liveUrls, download, lastOp, crashed, strictDates>>

----------------------------------------------------------------------------
(* JavaScript values *)

Num(n) == [t |-> "number", n |-> n, s |-> <<>>, b |-> FALSE]

Str(s) == [t |-> "string", n |-> 0, s |-> s, b |-> FALSE]

Bool(b) == [t |-> "boolean", n |-> 0, s |-> <<>>, b |-> b]

Null == [t |-> "null", n |-> 0, s |-> <<>>, b |-> FALSE]

Undefined == [t |-> "undefined", n |-> 0, s |-> <<>>, b |-> FALSE]

----------------------------------------------------------------------------
(* Text primitives *)

UpperLetters ==
  <<"A","B","C","D","E","F","G","H","I","J","K","L","M",
    "N","O","P","Q","R","S","T","U","V","W","X","Y","Z">>

LowerLetters ==
  <<"a","b","c","d","e","f","g","h","i","j","k","l","m",
    "n","o","p","q","r","s","t","u","v","w","x","y","z">>

Digits == <<"0","1","2","3","4","5","6","7","8","9">>

\* 1-based position of x in seq, 0 when absent
PosIn(seq, x) ==
  IF \E i \in 1..Len(seq) : seq[i] = x
  THEN CHOOSE i \in 1..Len(seq) : seq[i] = x /\ \A j \in 1..(i-1) : seq[j] # x
  ELSE 0

IsUpper(c) == PosIn(UpperLetters, c) # 0

IsDigit(c) == PosIn(Digits, c) # 0

IsWordChar(c) == IsUpper(c) \/ PosIn(LowerLetters, c) # 0 \/ IsDigit(c) \/ c = "_"

ToLowerChar(c) == IF IsUpper(c) THEN LowerLetters[PosIn(UpperLetters, c)] ELSE c

ToUpperChar(c) ==
  IF PosIn(LowerLetters, c) # 0 THEN UpperLetters[PosIn(LowerLetters, c)] ELSE c

\* String.prototype.toLowerCase
ToLowerCase(s) == [i \in 1..Len(s) |-> ToLowerChar(s[i])]

\* String.prototype.includes
Includes(hay, needle) ==
  \E i \in 0..(Len(hay) - Len(needle)) : SubSeq(hay, i + 1, i + Len(needle)) = needle

\* Array.prototype.includes
ArrIncludes(arr, x) == \E i \in 1..Len(arr) : arr[i] = x

RECURSIVE NatToString(_)
NatToString(n) ==
  IF n < 10 THEN <<Digits[n + 1]>>
  ELSE NatToString(n \div 10) \o <<Digits[(n % 10) + 1]>>

\* Number.prototype.toString for integers
NumToString(n) == IF n < 0 THEN <<"-">> \o NatToString(0 - n) ELSE NatToString(n)

\* value.toString(): a TypeError on null and undefined
ToStringThrows(v) == v.t \in {"null", "undefined"}

JsToString(v) ==
  CASE v.t = "number"  -> NumToString(v.n)
    [] v.t = "boolean" -> IF v.b THEN <<"t","r","u","e">> ELSE <<"f","a","l","s","e">>
    [] OTHER           -> v.s

\* the conversion Array.prototype.join applies to an element
JoinElem(v) == IF v.t \in {"null", "undefined"} THEN <<>> ELSE JsToString(v)

RECURSIVE JoinText(_, _)
\* Array.prototype.join on an array of texts
JoinText(parts, sep) ==
  IF Len(parts) = 0 THEN <<>>
  ELSE IF Len(parts) = 1 THEN parts[1]
  ELSE parts[1] \o sep \o JoinText(Tail(parts), sep)

----------------------------------------------------------------------------
(* Records *)

Keys(rec) == [i \in 1..Len(rec) |-> rec[i].k]

Values(rec) == [i \in 1..Len(rec) |-> rec[i].v]

\* row[field]: undefined when the row has no such field
Get(rec, f) ==
  IF \E i \in 1..Len(rec) : rec[i].k = f
  THEN rec[CHOOSE i \in 1..Len(rec) : rec[i].k = f].v
  ELSE Undefined

----------------------------------------------------------------------------
(* Field names used by the code and by the model's records *)

F_id == <<"i","d">>

F_name == <<"n","a","m","e">>

F_email == <<"e","m","a","i","l">>

F_role == <<"r","o","l","e">>

F_department == <<"d","e","p","a","r","t","m","e","n","t">>

F_joiningDate == <<"j","o","i","n","i","n","g","D","a","t","e">>

F_salary == <<"s","a","l","a","r","y">>

F_phone == <<"p","h","o","n","e">>

F_status == <<"s","t","a","t","u","s">>

F_location == <<"l","o","c","a","t","i","o","n">>

F_employmentType == <<"e","m","p","l","o","y","m","e","n","t","T","y","p","e">>

F_performanceRating ==
  <<"p","e","r","f","o","r","m","a","n","c","e","R","a","t","i","n","g">>

\* fieldOrder of the sort comparator
fieldOrder ==
  <<F_id, F_name, F_email, F_role, F_department, F_joiningDate,
    F_salary, F_phone, F_status>>

\* the static fallback for the visible columns
defaultVisibleColumns ==
  <<Str(F_name), Str(F_email), Str(F_role), Str(F_department), Str(F_joiningDate),
    Str(F_location), Str(F_employmentType), Str(F_performanceRating)>>

----------------------------------------------------------------------------
(* Column inference: config/columns.js *)

\* primary collation weight of a character: digits before letters, case ignored
CharRank(c) ==
  IF IsDigit(c) THEN PosIn(Digits, c)
  ELSE IF PosIn(LowerLetters, ToLowerChar(c)) # 0
       THEN 10 + PosIn(LowerLetters, ToLowerChar(c))
       ELSE 0

RECURSIVE PrimaryCompare(_, _)
PrimaryCompare(a, b) ==
  IF Len(a) = 0 /\ Len(b) = 0 THEN 0
  ELSE IF Len(a) = 0 THEN -1
  ELSE IF Len(b) = 0 THEN 1
  ELSE IF CharRank(a[1]) # CharRank(b[1]) THEN CharRank(a[1]) - CharRank(b[1])
  ELSE PrimaryCompare(Tail(a), Tail(b))

RECURSIVE CaseCompare(_, _)
\* tie-break of equal-ignoring-case texts: lower case sorts before upper case
CaseCompare(a, b) ==
  IF Len(a) = 0 \/ Len(b) = 0 THEN 0
  ELSE IF a[1] = b[1] THEN CaseCompare(Tail(a), Tail(b))
  ELSE IF IsUpper(b[1]) THEN -1 ELSE 1

\* String.prototype.localeCompare on texts of letters and digits
localeCompare(a, b) ==
  IF PrimaryCompare(a, b) # 0 THEN PrimaryCompare(a, b) ELSE CaseCompare(a, b)

\* the comparator of sortedKeys: known fields first in fieldOrder, the rest by locale
compareKeys(a, b) ==
  LET aIndex == PosIn(fieldOrder, a) - 1
      bIndex == PosIn(fieldOrder, b) - 1
  IN  IF aIndex # -1 /\ bIndex # -1 THEN aIndex - bIndex
      ELSE IF aIndex # -1 THEN -1
      ELSE IF bIndex # -1 THEN 1
      ELSE localeCompare(a, b)

RECURSIVE InsertSorted(_, _)
InsertSorted(sorted, x) ==
  IF Len(sorted) = 0 THEN <<x>>
  ELSE IF compareKeys(x, sorted[1]) < 0 THEN <<x>> \o sorted
  ELSE <<sorted[1]>> \o InsertSorted(Tail(sorted), x)

RECURSIVE SortKeys(_)
\* Array.prototype.sort (stable) with compareKeys
SortKeys(keys) ==
  IF Len(keys) = 0 THEN <<>>
  ELSE InsertSorted(SortKeys(SubSeq(keys, 1, Len(keys) - 1)), keys[Len(keys)])

RECURSIVE AddAll(_, _)
\* Set.add of each key, the set keeping insertion order
AddAll(acc, keys) ==
  IF Len(keys) = 0 THEN acc
  ELSE AddAll(IF ArrIncludes(acc, keys[1]) THEN acc ELSE Append(acc, keys[1]), Tail(keys))

\* AllKeys reading the keys of the first record only
AllKeys_FirstOnly(acc, d) ==
  IF Len(d) = 0 THEN acc ELSE AddAll(acc, Keys(d[1]))

RECURSIVE AllKeys(_, _)
AllKeys(acc, d) ==
  IF Len(d) = 0 THEN acc ELSE AllKeys(AddAll(acc, Keys(d[1])), Tail(d))

\* the number of days of a month of the proleptic Gregorian calendar
DaysInMonth(year, month) ==
  IF month = 2
  THEN (IF (year % 4 = 0 /\ year % 100 # 0) \/ year % 400 = 0 THEN 29 ELSE 28)
  ELSE IF month \in {4, 6, 9, 11} THEN 30 ELSE 31

\* Date.parse of a text already matching dddd-dd-dd is a number, not NaN:
\* the month is 01..12 and the day 01..31; a day past the end of a shorter
\* month is rejected by some JavaScript engines and rolled over into the next
\* month by others, which strictDates records for the engine the page runs on
DateParses(str) ==
  LET digit(i) == PosIn(Digits, str[i]) - 1
      year  == digit(1) * 1000 + digit(2) * 100 + digit(3) * 10 + digit(4)
      month == digit(6) * 10 + digit(7)
      day   == digit(9) * 10 + digit(10)
  IN  /\ month \in 1..12
      /\ day \in 1..31
      /\ strictDates => day <= DaysInMonth(year, month)

isDateString(str) ==
  /\ Len(str) = 10
  /\ \A i \in {1, 2, 3, 4, 6, 7, 9, 10} : IsDigit(str[i])
  /\ str[5] = "-" /\ str[8] = "-"
  /\ DateParses(str)

\* analyzeFieldType sampling the first record's value without skipping null
analyzeFieldType_NoSkip(fieldName, d) ==
  LET column     == [i \in 1..Len(d) |-> Get(d[i], fieldName)]
      firstValue == column[1]
  IN  IF \A i \in 1..Len(column) : column[i] = Null \/ column[i] = Undefined THEN "text"
      ELSE IF fieldName = F_id THEN "id"
      ELSE IF firstValue.t = "number" THEN "number"
      ELSE IF firstValue.t = "boolean" THEN "boolean"
      ELSE IF firstValue.t = "string" /\ isDateString(firstValue.s) THEN "date"
      ELSE "text"

analyzeFieldType(fieldName, d) ==
  LET column       == [i \in 1..Len(d) |-> Get(d[i], fieldName)]
      sampleValues == SelectSeq(column, LAMBDA val : val # Null /\ val # Undefined)
      firstValue   == sampleValues[1]
  IN  IF Len(sampleValues) = 0 THEN "text"
      ELSE IF fieldName = F_id THEN "id"
      ELSE IF firstValue.t = "number" THEN "number"
      ELSE IF firstValue.t = "boolean" THEN "boolean"
      ELSE IF firstValue.t = "string" /\ isDateString(firstValue.s) THEN "date"
      ELSE "text"

RECURSIVE SpaceCapitals(_)
\* replace(/([A-Z])/g, ' $1')
SpaceCapitals(s) ==
  IF Len(s) = 0 THEN <<>>
  ELSE (IF IsUpper(s[1]) THEN <<" ", s[1]>> ELSE <<s[1]>>) \o SpaceCapitals(Tail(s))

\* replace(/^./, upper)
CapitalizeFirst(s) ==
  [i \in 1..Len(s) |-> IF i = 1 THEN ToUpperChar(s[i]) ELSE s[i]]

\* replace(/\b\w/g, upper)
CapitalizeWords(s) ==
  [i \in 1..Len(s) |->
     IF IsWordChar(s[i]) /\ (i = 1 \/ ~IsWordChar(s[i - 1]))
     THEN ToUpperChar(s[i]) ELSE s[i]]

RECURSIVE TrimStart(_)
TrimStart(s) == IF Len(s) > 0 /\ s[1] = " " THEN TrimStart(Tail(s)) ELSE s

RECURSIVE TrimEnd(_)
TrimEnd(s) ==
  IF Len(s) > 0 /\ s[Len(s)] = " " THEN TrimEnd(SubSeq(s, 1, Len(s) - 1)) ELSE s

formatDisplayName(fieldName) ==
  TrimEnd(TrimStart(CapitalizeWords(CapitalizeFirst(SpaceCapitals(fieldName)))))

getFieldConfig(fieldName, fieldType) ==
  CASE fieldType = "id" ->
         [displayName |-> <<"I","D">>, sortable |-> TRUE, width |-> 80, omit |-> TRUE]
    [] fieldType = "date" ->
         [displayName |-> formatDisplayName(fieldName), sortable |-> TRUE,
          width |-> 130, omit |-> FALSE]
    [] fieldType = "number" ->
         [displayName |-> formatDisplayName(fieldName), sortable |-> TRUE,
          width |-> 120, omit |-> FALSE]
    [] fieldType = "boolean" ->
         [displayName |-> formatDisplayName(fieldName), sortable |-> TRUE,
          width |-> 100, omit |-> FALSE]
    [] OTHER ->
         [displayName |-> formatDisplayName(fieldName), sortable |-> TRUE,
          width |-> 150, omit |-> FALSE]

createColumnConfig(fieldName, d) ==
  LET config == getFieldConfig(fieldName, analyzeFieldType(fieldName, d))
  IN  [id |-> fieldName, name |-> config.displayName, sortable |-> config.sortable,
       width |-> config.width, omit |-> config.omit]

generateDynamicColumns(d) ==
  IF Len(d) = 0 THEN <<>>
  ELSE LET sortedKeys == SortKeys(AllKeys(<<>>, d))
       IN  [i \in 1..Len(sortedKeys) |-> createColumnConfig(sortedKeys[i], d)]

\* Array.prototype.slice(0, n)
Slice0(arr, n) == SubSeq(arr, 1, IF Len(arr) < n THEN Len(arr) ELSE n)

\* generateDefaultVisibleColumns without the cap of 8
generateDefaultVisibleColumns_NoCap(d) ==
  IF Len(d) = 0 THEN <<>>
  ELSE LET allKeys == Keys(d[1])
           nonId   == SelectSeq(allKeys, LAMBDA field : field # F_id)
       IN  [i \in 1..Len(nonId) |-> Str(nonId[i])]

generateDefaultVisibleColumns(d) ==
  IF Len(d) = 0 THEN <<>>
  ELSE LET allKeys == Keys(d[1])
           nonId   == SelectSeq(allKeys, LAMBDA field : field # F_id)
           visibleFields == Slice0(nonId, 8)
       IN  [i \in 1..Len(visibleFields) |-> Str(visibleFields[i])]

\* the labels as a sequence of [k, v] cells, one per key of the first record
generateColumnLabels(d) ==
  IF Len(d) = 0 THEN <<>>
  ELSE LET allKeys == Keys(d[1])
       IN  [i \in 1..Len(allKeys) |->
              [k |-> allKeys[i], v |-> Str(formatDisplayName(allKeys[i]))]]

----------------------------------------------------------------------------
(* Table view controller: DataTablePage.jsx, derived views *)

RECURSIVE SomeValueMatches(_, _)
\* Object.values(item).some(value => value.toString().toLowerCase().includes(needle)):
\* "match", "nomatch", or "throw" when toString is reached on null or undefined
SomeValueMatches(values, needle) ==
  IF Len(values) = 0 THEN "nomatch"
  ELSE IF ToStringThrows(values[1]) THEN "throw"
  ELSE IF Includes(ToLowerCase(JsToString(values[1])), needle) THEN "match"
  ELSE SomeValueMatches(Tail(values), needle)

RECURSIVE FilterItems(_, _)
\* data.filter(item => ...): the kept rows, or the TypeError that ends the pass
FilterItems(d, needle) ==
  IF Len(d) = 0 THEN [threw |-> FALSE, rows |-> <<>>]
  ELSE LET first == SomeValueMatches(Values(d[1]), needle)
           rest  == FilterItems(Tail(d), needle)
       IN  IF first = "throw" \/ rest.threw THEN [threw |-> TRUE, rows |-> <<>>]
           ELSE IF first = "match" THEN [threw |-> FALSE, rows |-> <<d[1]>> \o rest.rows]
           ELSE rest

filteredData(d, text) ==
  IF text = <<>> THEN [threw |-> FALSE, rows |-> d]
  ELSE FilterItems(d, ToLowerCase(text))

visibleTableColumns(columns, visible) ==
  SelectSeq(SelectSeq(columns, LAMBDA column : ArrIncludes(visible, Str(column.id))),
            LAMBDA column : ~column.omit)

\* the columns that get a checkbox in the open dropdown
dropdownColumns(columns, visible) ==
  SelectSeq(columns, LAMBDA column : ~column.omit \/ ArrIncludes(visible, Str(column.id)))

----------------------------------------------------------------------------
(* Table view controller: state updates of the handlers *)

\* toggleUpdate without the guard that keeps the last column
toggleUpdate_NoGuard(prev, columnId) ==
  IF ArrIncludes(prev, columnId)
  THEN SelectSeq(prev, LAMBDA id : id # columnId)
  ELSE Append(prev, columnId)

\* the updater of handleColumnToggle
toggleUpdate(prev, columnId) ==
  IF ArrIncludes(prev, columnId)
  THEN IF Len(prev) = 1 THEN prev
       ELSE SelectSeq(prev, LAMBDA id : id # columnId)
  ELSE Append(prev, columnId)

\* allColumnIds with the omit test negated
allColumnIds_KeepOmitted(columns) ==
  LET kept == SelectSeq(columns, LAMBDA col : col.omit)
  IN  [i \in 1..Len(kept) |-> Str(kept[i].id)]

\* allColumnIds of handleSelectAllColumns
allColumnIds(columns) ==
  LET kept == SelectSeq(columns, LAMBDA col : ~col.omit)
  IN  [i \in 1..Len(kept) |-> Str(kept[i].id)]

\* firstColumnId without the preference for the name column
firstColumnId_NoName(columns) ==
  IF Len(columns) > 0 THEN <<Str(columns[1].id)>> ELSE <<Undefined>>

\* [firstColumn?.id] of handleSelectNoColumns
firstColumnId(columns) ==
  LET named == SelectSeq(columns, LAMBDA col : col.id = F_name)
  IN  IF Len(named) > 0 THEN <<Str(named[1].id)>>
      ELSE IF Len(columns) > 0 THEN <<Str(columns[1].id)>>
      ELSE <<Undefined>>

\* the effect that runs when data changes
dataEffect(d, visible) ==
  LET newDefaults == generateDefaultVisibleColumns(d)
      newColumns  == SelectSeq(newDefaults, LAMBDA col : ~ArrIncludes(visible, col))
  IN  IF Len(newDefaults) > 0 /\ newDefaults # visible /\ Len(newColumns) > 0
      THEN visible \o newColumns
      ELSE visible

\* the cell exportToCSV emits for a value
csvCell(value) ==
  IF value.t = "string" /\ Includes(value.s, <<",">>)
  THEN Str(<<"\"", "{", "v", "a", "l", "u", "e", "}", "\"">>)
  ELSE value

csvRow(row, columns) ==
  JoinText([i \in 1..Len(columns) |-> JoinElem(csvCell(Get(row, columns[i].id)))], <<",">>)

csvContent(columns, rows) ==
  LET csvHeaders == JoinText([i \in 1..Len(columns) |-> columns[i].name], <<",">>)
      csvRows    == [i \in 1..Len(rows) |-> csvRow(rows[i], columns)]
  IN  JoinText(<<csvHeaders>> \o csvRows, <<"\n">>)

----------------------------------------------------------------------------
(* Bounds and the inputs the model draws from *)

MaxRecords == 2

MaxExports == 1

Cell(k, v) == [k |-> k, v |-> v]

T_Ann == <<"A","n","n">>

T_ab == <<"a",",","b">>

\* {id: 1, name: "Ann"}, {email: "a,b", name: null}, {id: 2}
RecordPool ==
  { <<Cell(F_id, Num(1)), Cell(F_name, Str(T_Ann))>>,
    <<Cell(F_email, Str(T_ab)), Cell(F_name, Null)>>,
    <<Cell(F_id, Num(2))>> }

RECURSIVE SeqsUpTo(_, _)
SeqsUpTo(S, n) ==
  IF n = 0 THEN {<<>>}
  ELSE LET shorter == SeqsUpTo(S, n - 1)
       IN  shorter \cup {Append(q, x) : q \in shorter, x \in S}

Datasets == SeqsUpTo(RecordPool, MaxRecords)

FilterTexts == {<<>>, <<"A","N">>, <<"2">>}

NoArg == Undefined

Op(name, arg) == [op |-> name, arg |-> arg]

----------------------------------------------------------------------------
(* The component *)

dynamicColumns == generateDynamicColumns(data)

\* the render after a state change throws when the filter pass throws
RenderThrows(d, text) == filteredData(d, text).threw

Init ==
  /\ data \in Datasets
  /\ filterText = <<>>
  /\ visibleColumns =
       (IF Len(generateDefaultVisibleColumns(data)) > 0
        THEN generateDefaultVisibleColumns(data) ELSE defaultVisibleColumns)
  /\ liveUrls = 0
  /\ download = <<>>
  /\ lastOp = Op("mount", NoArg)
  /\ crashed = FALSE
  /\ strictDates \in BOOLEAN

handleFilterChange(text) ==
  /\ ~crashed
  /\ filterText' = text
  /\ crashed' = RenderThrows(data, text)
  /\ lastOp' = Op("filter", NoArg)
  /\ download' = <<>>
  /\ UNCHANGED <<strictDates, data, visibleColumns, liveUrls>>

handleColumnToggle(columnId) ==
  /\ ~crashed
  /\ visibleColumns' = toggleUpdate(visibleColumns, columnId)
  /\ lastOp' = Op("toggle", columnId)
  /\ download' = <<>>
  /\ UNCHANGED <<strictDates, data, filterText, liveUrls, crashed>>

handleSelectAllColumns ==
  /\ ~crashed
  /\ visibleColumns' = allColumnIds(dynamicColumns)
  /\ lastOp' = Op("selectAll", NoArg)
  /\ download' = <<>>
  /\ UNCHANGED <<strictDates, data, filterText, liveUrls, crashed>>

handleSelectNoColumns ==
  /\ ~crashed
  /\ visibleColumns' = firstColumnId(dynamicColumns)
  /\ lastOp' = Op("selectNone", NoArg)
  /\ download' = <<>>
  /\ UNCHANGED <<strictDates, data, filterText, liveUrls, crashed>>

\* builds the CSV, creates an object URL for it, clicks a temporary link and
\* removes the link again; the URL is not revoked
exportToCSV ==
  /\ ~crashed
  /\ liveUrls < MaxExports
  /\ download' = csvContent(visibleTableColumns(dynamicColumns, visibleColumns),
                            filteredData(data, filterText).rows)
  /\ liveUrls' = liveUrls + 1
  /\ lastOp' = Op("export", NoArg)
  /\ UNCHANGED <<strictDates, data, filterText, visibleColumns, crashed>>

\* the record array is replaced; the re-render and then the data effect follow
setData(d) ==
  /\ ~crashed
  /\ data' = d
  /\ crashed' = RenderThrows(d, filterText)
  /\ visibleColumns' = (IF crashed' THEN visibleColumns ELSE dataEffect(d, visibleColumns))
  /\ lastOp' = Op("setData", NoArg)
  /\ download' = <<>>
  /\ UNCHANGED <<strictDates, filterText, liveUrls>>

Next ==
  \/ \E text \in FilterTexts : handleFilterChange(text)
  \/ \E i \in 1..Len(dropdownColumns(dynamicColumns, visibleColumns)) :
       handleColumnToggle(Str(dropdownColumns(dynamicColumns, visibleColumns)[i].id))
  \/ handleSelectAllColumns
  \/ handleSelectNoColumns
  \/ exportToCSV
  \/ \E d \in Datasets : setData(d)

Spec == Init /\ [][Next]_vars

----------------------------------------------------------------------------
(* Column inference on wider records: the page is mounted on a record array
   and the array is replaced, nothing else happens *)

MaxInferRecords == 2

T_day == <<"2","0","2","3","-","0","1","-","1","5">>

T_feb30 == <<"2","0","2","3","-","0","2","-","3","0">>

T_month13 == <<"2","0","2","3","-","1","3","-","0","1">>

\* {salary: 50000, id: 7, name: "Ann", joiningDate: "2023-01-15", status: true,
\*  email: "a,b", role: "Ann", department: "Ann", phone: "Ann", location: "Ann"},
\* {id: null, salary: null, joiningDate: "2023-02-30", status: null},
\* {performanceRating: 4, id: 3, salary: 10, joiningDate: "2023-13-01", status: false}
InferPool ==
  { <<Cell(F_salary, Num(50000)), Cell(F_id, Num(7)), Cell(F_name, Str(T_Ann)),
      Cell(F_joiningDate, Str(T_day)), Cell(F_status, Bool(TRUE)),
      Cell(F_email, Str(T_ab)), Cell(F_role, Str(T_Ann)), Cell(F_department, Str(T_Ann)),
      Cell(F_phone, Str(T_Ann)), Cell(F_location, Str(T_Ann))>>,
    <<Cell(F_id, Null), Cell(F_salary, Null), Cell(F_joiningDate, Str(T_feb30)),
      Cell(F_status, Null)>>,
    <<Cell(F_performanceRating, Num(4)), Cell(F_id, Num(3)), Cell(F_salary, Num(10)),
      Cell(F_joiningDate, Str(T_month13)), Cell(F_status, Bool(FALSE))>> }

InferDatasets == SeqsUpTo(InferPool, MaxInferRecords)

InitInfer ==
  /\ data \in InferDatasets
  /\ filterText = <<>>
  /\ visibleColumns =
       (IF Len(generateDefaultVisibleColumns(data)) > 0
        THEN generateDefaultVisibleColumns(data) ELSE defaultVisibleColumns)
  /\ liveUrls = 0
  /\ download = <<>>
  /\ lastOp = Op("mount", NoArg)
  /\ crashed = FALSE
  /\ strictDates \in BOOLEAN

NextInfer == \E d \in InferDatasets : setData(d)

SpecInfer == InitInfer /\ [][NextInfer]_vars

----------------------------------------------------------------------------
(* Properties *)

Range(seq) == {seq[i] : i \in 1..Len(seq)}

ColumnIds(columns) == [i \in 1..Len(columns) |-> columns[i].id]

shownColumns == visibleTableColumns(dynamicColumns, visibleColumns)

\* C1: the visible column set is never empty, whatever the user actions and
\* record replacements were.
C1_VisibleNeverEmpty == Len(visibleColumns) >= 1

\* C2: toggleColumn(id) leaves visibleColumnIds alone when id is its only member
\* and otherwise flips the membership of id; a non-empty set stays non-empty.
C2_ToggleFlipsOrKeepsLast ==
  [][lastOp'.op = "toggle" =>
       LET id     == lastOp'.arg
           before == Range(visibleColumns)
           after  == Range(visibleColumns')
       IN  /\ IF before = {id} THEN visibleColumns' = visibleColumns
              ELSE IF id \in before THEN after = before \ {id}
              ELSE after = before \cup {id}
           /\ Len(visibleColumns) >= 1 => Len(visibleColumns') >= 1]_vars

\* C2 witness: a toggle of the only visible column has been handled.
C2_LastColumnToggled ==
  /\ lastOp.op = "toggle"
  /\ visibleColumns = <<lastOp.arg>>
  /\ Len(dynamicColumns) >= 2

\* C3: visibleColumns() is exactly the inferred columns whose identifier is in
\* visibleColumnIds, in inferred order, the default-hidden one included.
C3_ShownAreTheVisibleIds ==
  shownColumns =
    SelectSeq(dynamicColumns, LAMBDA column : Str(column.id) \in Range(visibleColumns))

\* C4: a replacement of the record array adds every newly appearing column
\* (a default-hidden one aside) to visibleColumnIds and leaves the visibility
\* of the columns known before as it was.
C4_ReplacementAddsNewKeepsKnown ==
  [][(lastOp'.op = "setData" /\ ~crashed') =>
       LET known   == Range(ColumnIds(dynamicColumns))
           nowCols == generateDynamicColumns(data')
           added   == {nowCols[i].id : i \in {j \in 1..Len(nowCols) : ~nowCols[j].omit}}
                        \ known
       IN  /\ \A id \in added : Str(id) \in Range(visibleColumns')
           /\ \A id \in known :
                (Str(id) \in Range(visibleColumns')) = (Str(id) \in Range(visibleColumns))]_vars

\* C5: the filter pass completes for every record array and every filter text;
\* a null or undefined field value does not make it throw.
C5_FilteringNeverFails == ~filteredData(data, filterText).threw /\ ~crashed

\* C6: every exported text cell that contains a comma appears in the CSV as
\* the cell value itself between double quotes.
C6_CommaCellsQuotedWithValue ==
  lastOp.op = "export" =>
    \A r \in 1..Len(filteredData(data, filterText).rows) :
      \A c \in 1..Len(shownColumns) :
        LET value == Get(filteredData(data, filterText).rows[r], shownColumns[c].id)
        IN  (value.t = "string" /\ Includes(value.s, <<",">>)) =>
              Includes(download, <<"\"">> \o value.s \o <<"\"">>)

\* C7: after an export no object URL created by it remains unreleased.
C7_ObjectUrlsReleased == liveUrls = 0

\* C8: right after selectAll, visibleColumns() holds every column that is not
\* default-hidden exactly once, and no default-hidden column.
C8_SelectAllShowsNonHiddenOnce ==
  lastOp.op = "selectAll" =>
    /\ \A i \in 1..Len(dynamicColumns) :
         Cardinality({j \in 1..Len(shownColumns) : shownColumns[j].id = dynamicColumns[i].id})
           = (IF dynamicColumns[i].omit THEN 0 ELSE 1)
    /\ Range(shownColumns) \subseteq Range(dynamicColumns)

\* C8 witness: selectAll has run on records with a hidden and a shown column.
C8_SelectAllDone ==
  /\ lastOp.op = "selectAll"
  /\ \E i \in 1..Len(dynamicColumns) : dynamicColumns[i].omit
  /\ Len(shownColumns) >= 1

\* C9 as stated: selectNone leaves exactly one column identifier, name if the
\* inferred columns have it and the first inferred column otherwise, for every
\* record array.
C9_SelectNoneSingletonAlways ==
  lastOp.op = "selectNone" =>
    /\ Len(visibleColumns) = 1
    /\ visibleColumns[1].t = "string"
    /\ IF F_name \in Range(ColumnIds(dynamicColumns))
       THEN visibleColumns[1].s = F_name
       ELSE Len(dynamicColumns) > 0 /\ visibleColumns[1].s = dynamicColumns[1].id

\* C9 amended: selectNone leaves exactly one element: name if the inferred
\* columns have it, else the first inferred column when there is one, and the
\* value undefined when no column is inferred at all.
C9_SelectNoneSingleton ==
  lastOp.op = "selectNone" =>
    /\ Len(visibleColumns) = 1
    /\ IF F_name \in Range(ColumnIds(dynamicColumns))
       THEN visibleColumns[1] = Str(F_name)
       ELSE IF Len(dynamicColumns) > 0
       THEN visibleColumns[1] = Str(dynamicColumns[1].id)
       ELSE visibleColumns[1] = Undefined

\* C9 witness: selectNone has run on records that have a name column which is
\* not the first inferred column.
C9_SelectNoneDone ==
  /\ lastOp.op = "selectNone"
  /\ Len(dynamicColumns) >= 2
  /\ dynamicColumns[1].id # F_name
  /\ visibleColumns = <<Str(F_name)>>

\* a record has a field whose text, lower-cased, contains the lower-cased filter
RecordMatches(rec, text) ==
  \E i \in 1..Len(rec) :
    /\ ~ToStringThrows(rec[i].v)
    /\ Includes(ToLowerCase(JsToString(rec[i].v)), ToLowerCase(text))

\* C10: filteredRecords() returns, in order, exactly the records with a field
\* whose lower-cased text contains the lower-cased filter text, and the whole
\* record array when the filter text is empty.
C10_FilterKeepsExactlyMatches ==
  /\ ~filteredData(data, filterText).threw
  /\ filteredData(data, filterText).rows =
       (IF filterText = <<>> THEN data
        ELSE SelectSeq(data, LAMBDA rec : RecordMatches(rec, filterText)))

RECURSIVE SplitLines(_, _)
\* the lines of a text: SplitLines(text, <<>>) cuts text at every "\n"
SplitLines(text, line) ==
  IF Len(text) = 0 THEN <<line>>
  ELSE IF text[1] = "\n" THEN <<line>> \o SplitLines(Tail(text), <<>>)
  ELSE SplitLines(Tail(text), Append(line, text[1]))

\* the cells of a record under the shown columns, raw or with comma texts quoted
RawRow(rec, quoted) ==
  JoinText([c \in 1..Len(shownColumns) |->
              LET value == Get(rec, shownColumns[c].id)
              IN  IF quoted /\ value.t = "string" /\ Includes(value.s, <<",">>)
                  THEN <<"\"">> \o value.s \o <<"\"">>
                  ELSE JoinElem(value)],
           <<",">>)

\* C11: the exported CSV has one header line with the labels of the shown
\* columns and then one line per filtered record with the record's values at
\* the shown columns (a comma text raw or quoted), nothing else.
C11_CsvIsHeaderPlusRows ==
  lastOp.op = "export" =>
    LET rows  == filteredData(data, filterText).rows
        lines == SplitLines(download, <<>>)
    IN  /\ Len(lines) = 1 + Len(rows)
        /\ lines[1] = JoinText([c \in 1..Len(shownColumns) |-> shownColumns[c].name], <<",">>)
        /\ \A i \in 1..Len(rows) :
             i + 1 <= Len(lines) =>
               lines[i + 1] \in {RawRow(rows[i], FALSE), RawRow(rows[i], TRUE)}

\* C15: every element of visibleColumnIds is the identifier of a column
\* inferred from the current records and occurs once, so the displayed count
\* of visible columns is the number of inferred columns marked visible.
C15_VisibleIdsAreInferredColumns ==
  /\ \A i \in 1..Len(visibleColumns) :
       /\ visibleColumns[i].t = "string"
       /\ visibleColumns[i].s \in Range(ColumnIds(dynamicColumns))
       /\ \A j \in 1..Len(visibleColumns) : visibleColumns[j] = visibleColumns[i] => j = i
  /\ Len(visibleColumns) =
       Cardinality({i \in 1..Len(dynamicColumns) :
                      Str(dynamicColumns[i].id) \in Range(visibleColumns)})

\* the field names that occur in any record
FieldsOf(d) == UNION {{d[r][c].k : c \in 1..Len(d[r])} : r \in 1..Len(d)}

\* C12: for a non-empty record array there is exactly one column per field
\* name that occurs in any record; for an empty one the columns, the default
\* visible set and the labels are all empty.
C12_OneColumnPerField ==
  /\ Len(data) = 0 =>
       /\ dynamicColumns = <<>>
       /\ generateDefaultVisibleColumns(data) = <<>>
       /\ generateColumnLabels(data) = <<>>
  /\ Len(data) > 0 =>
       /\ \A f \in FieldsOf(data) :
            Cardinality({i \in 1..Len(dynamicColumns) : dynamicColumns[i].id = f}) = 1
       /\ \A i \in 1..Len(dynamicColumns) : dynamicColumns[i].id \in FieldsOf(data)

\* C12 witness: the array was replaced by one whose second record has a field
\* the first record lacks, next to fields both records have.
C12_FieldOnlyInLaterRecord ==
  /\ lastOp.op = "setData"
  /\ Len(data) = 2
  /\ \E f \in FieldsOf(data) : f \notin Range(Keys(data[1]))
  /\ \E f \in Range(Keys(data[1])) : f \in Range(Keys(data[2]))

\* the first value of a field that is neither null nor undefined, in record order
FirstSample(f, d) ==
  LET present == {i \in 1..Len(d) : Get(d[i], f).t \notin {"null", "undefined"}}
  IN  IF present = {} THEN Undefined
      ELSE Get(d[CHOOSE i \in present : \A j \in present : i <= j], f)

\* a text of the form YYYY-MM-DD that parses as a date
IsIsoDateText(s) ==
  /\ Len(s) = 10
  /\ s[5] = "-" /\ s[8] = "-"
  /\ \A i \in (1..10) \ {5, 8} : s[i] \in Range(Digits)
  /\ DateParses(s)

\* the type the claim gives a sample value
KindOf(v) ==
  CASE v.t = "number" -> "number"
    [] v.t = "boolean" -> "boolean"
    [] v.t = "string" /\ IsIsoDateText(v.s) -> "date"
    [] OTHER -> "text"

\* C13 as stated: the type of every field is the kind of its first non-null
\* value, and text when it has none, whatever the field is named.
C13_TypeFromFirstSample ==
  \A f \in FieldsOf(data) :
    analyzeFieldType(f, data) =
      (IF FirstSample(f, data) = Undefined THEN "text" ELSE KindOf(FirstSample(f, data)))

\* C13 amended: as stated for every field but id; the field named id has the
\* type id as soon as it has a non-null value, and text when it has none.
C13_TypeFromFirstSampleButId ==
  \A f \in FieldsOf(data) :
    analyzeFieldType(f, data) =
      (IF FirstSample(f, data) = Undefined THEN "text"
       ELSE IF f = F_id THEN "id"
       ELSE KindOf(FirstSample(f, data)))

\* C13 witness: the first record has null for id and salary, a later one has
\* numbers for both, and the first date text is one only some engines parse.
C13_NullBeforeNumber ==
  /\ lastOp.op = "setData"
  /\ Len(data) = 2
  /\ Get(data[1], F_salary) = Null /\ Get(data[2], F_salary).t = "number"
  /\ Get(data[1], F_id) = Null /\ Get(data[2], F_id).t = "number"
  /\ FirstSample(F_joiningDate, data) = Str(T_feb30)
  /\ strictDates

\* d is made of distinct elements of ordered, in the order they have there
InOrderOf(d, ordered) ==
  /\ \A i \in 1..Len(d) : PosIn(ordered, d[i]) # 0
  /\ \A i \in 1..Len(d) : \A j \in 1..Len(d) :
       i < j => PosIn(ordered, d[i]) < PosIn(ordered, d[j])

inferredIds == [i \in 1..Len(dynamicColumns) |-> Str(dynamicColumns[i].id)]

\* C14 as stated: the default visible set is all inferred columns, or at most
\* 8 inferred columns other than id in the inferred column order.
C14_DefaultsInInferredOrder ==
  LET defaults == generateDefaultVisibleColumns(data)
  IN  \/ defaults = inferredIds
      \/ /\ InOrderOf(defaults, inferredIds)
         /\ Len(defaults) <= 8
         /\ Str(F_id) \notin Range(defaults)

\* C14 amended: the default visible set is the first record's field names
\* other than id, at most the first 8 of them, in the first record's key
\* order; each is an inferred column; it is empty for an empty array.
C14_DefaultsInFirstRecordOrder ==
  LET defaults == generateDefaultVisibleColumns(data)
      own      == IF Len(data) = 0 THEN <<>>
                  ELSE SelectSeq(Keys(data[1]), LAMBDA k : k # F_id)
  IN  /\ Len(defaults) = (IF Len(own) > 8 THEN 8 ELSE Len(own))
      /\ \A i \in 1..Len(defaults) : defaults[i] = Str(own[i])
      /\ Str(F_id) \notin Range(defaults)
      /\ Range(defaults) \subseteq Range(inferredIds)

\* C14 witness: the first record has id and more than 8 other fields, in an
\* order that is not the inferred one.
C14_WideFirstRecord ==
  /\ lastOp.op = "setData"
  /\ Len(data) >= 1
  /\ F_id \in Range(Keys(data[1]))
  /\ Len(data[1]) > 9
  /\ ~InOrderOf(generateDefaultVisibleColumns(data), inferredIds)

====
